---- MODULE Spec2Model ----
(***************************************************************************)
(* Model of the momentum-ranking / inverse-volatility allocation / order   *)
(* lifecycle strategy KeltnerStrategy (src/Strategies/AB/AB_Backtest.py).  *)
(*                                                                         *)
(* The data feeds, the indicator lines and the broker are the strategy's   *)
(* environment: a bar lets the broker match the pending orders and         *)
(* delivers new prices (NewBar), the indicator lines are computed on it    *)
(* (Indicators), then the strategy's handler runs on that bar (next).      *)
(*                                                                         *)
(* Numbers.  Indicator values are exact: a momentum is an integer number   *)
(* of hundredths (the code rounds it to 2 decimals), ATR and close are     *)
(* positive integers, a weight is an integer number of millionths (the     *)
(* code rounds it to 6 decimals), playing_value is an exact fraction.      *)
(***************************************************************************)
EXTENDS Integers, Sequences, FiniteSets, TLC

(***************************************************************************)
(* Bounds of the model: the strategy parameters, scaled down from the run  *)
(* configuration (momentum period 400, ATRR period 110, no ETH filter).    *)
(***************************************************************************)
momentum_period == 1
ETH_SMA_period == 0
ATRR_period == 1

\* The symbols of the data feeds that can be added after datas[0].
Symbols == <<"A", "B", "C", "D", "E">>
Coins == {Symbols[i] : i \in 1..Len(Symbols)}

\* round(x, 6): a weight is kept in millionths.
WeightScale == 1000000

VARIABLES
    datas,            \* self.datas[1:], the traded data feeds of the run
    BLACK_LIST,       \* module-level denylist
    NUM_ELITE_COINS,  \* self.NUM_ELITE_COINS
    len,              \* len(d): bars delivered by feed d (saturating)
    momentum,         \* coins_indicators[d]["momentum"][0], in hundredths
    ATR,              \* bt.indicators.ATR(d, period=ATRR_period)[0]
    close,            \* d.close[0]
    ATRR,             \* coins_indicators[d]["ATRR"][0], a fraction <<n, d>>
    value,            \* self.broker.get_value()
    position,         \* self.getposition(d).size
    pending,          \* broker's open orders, per data feed
    coins_ranking,    \* self.coins_ranking["data"], the ranked rows
    phase,            \* "data": a bar was delivered; "bar": its indicators are
                      \* computed, next() is due; "idle": next() returned;
                      \* "stopped": stop() returned
    crashed,          \* the run was aborted by an exception
    total_percent_pnl,  \* self.total_percent_pnl, in percent
    perc_pnl,         \* coins_indicators[d]["perc_pnl"], in percent
    trades_number,    \* coins_indicators[d]["trades_number"]
    log,              \* the feeds of the "Margin/Rejected" lines that self.log
                      \* printed under the current bar's timestamp
    call,             \* the ranking or momentum function being called, with its arguments
    result            \* what that call returned or raised

vars == <<datas, BLACK_LIST, NUM_ELITE_COINS, len, momentum, ATR, close, ATRR, value,
          position, pending, coins_ranking, phase, crashed,
          total_percent_pnl, perc_pnl, trades_number, log, call, result>>

\* No function of the helper modules is being called.
NoCall == [fn |-> "none"]
Pending == [status |-> "pending"]
calls == <<call, result>>

\* What notify_trade, notify_order and stop write.
accounts == <<total_percent_pnl, perc_pnl, trades_number, log>>

\* The state of the strategy run.
strategy == <<datas, BLACK_LIST, NUM_ELITE_COINS, len, momentum, ATR, close, ATRR, value,
              position, pending, coins_ranking, phase, crashed, accounts>>

----------------------------------------------------------------------------
(* Arithmetic helpers *)

Max(a, b) == IF a >= b THEN a ELSE b
Min(a, b) == IF a <= b THEN a ELSE b

RECURSIVE GCD(_, _)
GCD(a, b) == IF b = 0 THEN a ELSE GCD(b, a % b)

LCM(a, b) == (a \div GCD(a, b)) * b

\* An exact fraction n/d, d > 0, in lowest terms.
Frac(n, d) == LET g == GCD(n, d) IN IF g = 0 THEN <<0, 1>> ELSE <<n \div g, d \div g>>

RECURSIVE SeqSum(_)
SeqSum(s) == IF s = <<>> THEN 0 ELSE Head(s) + SeqSum(Tail(s))

RECURSIVE SeqLCM(_)
SeqLCM(s) == IF s = <<>> THEN 1 ELSE LCM(Head(s), SeqLCM(Tail(s)))

Range(s) == {s[i] : i \in 1..Len(s)}

\* <<floor(n * 10^k / d), (n * 10^k) mod d>>, digit by digit.
RECURSIVE ScaledDiv(_, _, _)
ScaledDiv(n, d, k) ==
    IF k = 0 THEN <<n \div d, n % d>>
    ELSE LET p == ScaledDiv(n, d, k - 1)
         IN <<p[1] * 10 + ((p[2] * 10) \div d), (p[2] * 10) % d>>

\* Python's round(n / d, 6) in millionths: nearest, ties to even.
Round6(n, d) ==
    LET p == ScaledDiv(n, d, 6)
    IN IF 2 * p[2] < d THEN p[1]
       ELSE IF 2 * p[2] > d THEN p[1] + 1
       ELSE IF p[1] % 2 = 0 THEN p[1] ELSE p[1] + 1

----------------------------------------------------------------------------
(* KeltnerStrategy.next: filter, ranking, elite *)

\* max(self.p.momentum_period, self.p.ETH_SMA_period, self.p.ATRR_period)
MaxPeriod == Max(momentum_period, Max(ETH_SMA_period, ATRR_period))

\* prenext: [d for d in self.datas[1:] if len(d)]; nextstart: self.datas[1:]
coins == {d \in datas : len[d] > 0}

\* list(filter(lambda x: len(x) > max(...), self.coins))
all_coins_loop_list == {d \in coins : len[d] > MaxPeriod}

\* Variant of Skipped that forgets the denylist.
Skipped_no_denylist(d) == momentum[d] < 0

\* if (pair_momentum < 0) or (pair in BLACK_LIST): continue
Skipped(d) == (momentum[d] < 0) \/ (d \in BLACK_LIST)

\* The rows appended to self.coins_ranking.
RankingRows == {d \in all_coins_loop_list : ~Skipped(d)}

\* sort_values(by=["momentum"], ascending=False): the rows by momentum
\* descending; the sort has no second key and is not stable, so rows of
\* equal momentum come out in any order.
RECURSIVE SortedByMomentum(_)
SortedByMomentum(rows) ==
    IF rows = {} THEN {<<>>}
    ELSE LET top == {d \in rows : \A e \in rows : momentum[e] <= momentum[d]}
         IN UNION {{<<d>> \o r : r \in SortedByMomentum(rows \ {d})} : d \in top}

\* Variant of head that keeps one row too many.
head_one_more(s, n) == SubSeq(s, 1, Min(n + 1, Len(s)))

\* df.head(n)
head(s, n) == SubSeq(s, 1, Min(n, Len(s)))

\* self.coins_ranking["data"].head(self.NUM_ELITE_COINS).values
EliteRows(r) == head(r, NUM_ELITE_COINS)

\* self.elite_length
elite_length(r) == Len(EliteRows(r))

Elite(r) == Range(EliteRows(r))

----------------------------------------------------------------------------
(* Inverse volatility and allocation *)

\* ATRR of the rows of e over their common denominator: ATRR[d] is
\* ATRRScaled(e, d) / ATRRDenominator(e).
ATRRDenominator(e) == SeqLCM([i \in 1..Len(e) |-> ATRR[e[i]][2]])
ATRRScaled(e, d) == ATRR[d][1] * (ATRRDenominator(e) \div ATRR[d][2])

\* self.ATRR_elite_sum = head(NUM_ELITE_COINS)["ATRR"].sum(), same denominator
ATRR_elite_sum(r) ==
    LET e == EliteRows(r) IN SeqSum([i \in 1..Len(e) |-> ATRRScaled(e, e[i])])

\* weight = round(ATRR / self.ATRR_elite_sum, 6), in millionths
weight(r, d) == Round6(ATRRScaled(EliteRows(r), d), ATRR_elite_sum(r))

\* Variant of playing_value without the under-allocation buffer.
playing_value_no_buffer(r) == Frac(value * elite_length(r), NUM_ELITE_COINS)

\* playing_value = broker.get_value() * (elite_length / (NUM_ELITE_COINS + 1))
playing_value(r) == Frac(value * elite_length(r), NUM_ELITE_COINS + 1)

\* target_size = playing_value * weight / d.close[0], kept as its factors:
\* the size is pv[1]/pv[2] * w/WeightScale / c.
target_size(r, d) == [pv |-> playing_value(r), w |-> weight(r, d), c |-> close[d]]

NoSize == [pv |-> <<0, 1>>, w |-> 0, c |-> 1]
IsZeroSize(s) == s.pv[1] = 0 \/ s.w = 0

HasPosition(d) == ~IsZeroSize(position[d])

----------------------------------------------------------------------------
(* Orders *)

\* backtrader's Order.Completed: line 209 cancels the orders with status < 4
\* (Created, Submitted, Accepted, Partial).
Completed == 4

NaN == "nan"

\* An order as the broker holds it once accepted (status Accepted = 2).
Order(buy, exectype, price, size) ==
    [isbuy |-> buy, exectype |-> exectype, price |-> price, size |-> size, status |-> 2]

\* Variant of CancelAll that cancels nothing.
CancelAll_nothing(q) == q

\* [self.cancel(o) for o in self.broker.get_orders_open() if o.status < 4]:
\* what is left of a feed's open orders.
CancelAll(q) == SelectSeq(q, LAMBDA o : ~(o.status < Completed))

\* self.buy(d, exectype=Limit, price=..., size=target_size): Strategy.buy
\* hands the order to the broker only for a non-zero size.
buy(price, size) ==
    IF IsZeroSize(size) THEN <<>> ELSE <<Order(TRUE, "Limit", price, size)>>

\* self.close(d, exectype=..., price=...): a sell of the whole position.
closeposition(d, exectype, price) ==
    IF HasPosition(d) THEN <<Order(FALSE, exectype, price, position[d])>> ELSE <<>>

\* Variant of sell_conditions that looks at the whole ranking, not its head.
sell_conditions_unranked(r, d) == d \notin Range(r)

\* Variant of sell_conditions that holds for every instrument.
sell_conditions_always(r, d) == TRUE

\* Sell coins section (lines 238-241)
sell_conditions(r, d) == d \notin Elite(r)
SellSection(r, d) ==
    IF d \in all_coins_loop_list /\ HasPosition(d) /\ sell_conditions(r, d)
    THEN closeposition(d, "Market", "market")
    ELSE <<>>

\* Variant of BuySection that does not ask the broker for the position.
BuySection_no_position_check(r, d) ==
    IF d \in Elite(r)
    THEN buy("keltner_bot", target_size(r, d))
         \o (IF HasPosition(d) THEN closeposition(d, "Limit", "keltner_top") ELSE <<>>)
    ELSE <<>>

\* Buy coins section (lines 244-252): both ifs read the broker's position,
\* which an order submitted in this call does not change.
BuySection(r, d) ==
    IF d \in Elite(r)
    THEN (IF ~HasPosition(d) THEN buy("keltner_bot", target_size(r, d)) ELSE <<>>)
         \o (IF HasPosition(d) THEN closeposition(d, "Limit", "keltner_top") ELSE <<>>)
    ELSE <<>>

\* KeltnerStrategy.next on the bar just delivered.
next ==
    /\ phase = "bar"
    /\ ~crashed
    /\ \E r \in SortedByMomentum(RankingRows) :
          /\ coins_ranking' = r
          /\ pending' = [d \in Coins |->
                            CancelAll(pending[d]) \o SellSection(r, d) \o BuySection(r, d)]
    /\ phase' = "idle"
    /\ UNCHANGED <<datas, BLACK_LIST, NUM_ELITE_COINS, len, momentum, ATR, close, ATRR,
                   value, position, crashed, accounts, calls>>

----------------------------------------------------------------------------
(* The environment: data feeds, indicators, broker *)

\* Values a bar can deliver in the order-lifecycle specification.
BarMomentum == {-100, 100, 200}
BarATR == {1}
BarClose == {1}
BarValue == {10000}

LenCap == MaxPeriod + 1

\* ATR(period) has a value from bar period + 1 on.
HasATRR(l, d) == d \in datas /\ l[d] > ATRR_period

\* Momentum is a PeriodN indicator: it has a value from bar momentum_period on.
HasMomentum(l, d) == d \in datas /\ l[d] >= momentum_period
HasClose(l, d) == d \in datas /\ l[d] >= 1

\* The broker matches the first open order of a feed on the new bar: it
\* stays open, is executed in full, or is refused (Margin / Rejected).
Outcomes(d) == IF pending[d] = <<>> THEN {"open"} ELSE {"open", "completed", "rejected"}

PositionAfter(d, outcome) ==
    IF outcome = "completed"
    THEN (IF Head(pending[d]).isbuy THEN Head(pending[d]).size ELSE NoSize)
    ELSE position[d]

PendingAfter(d, outcome) ==
    IF outcome = "open" THEN pending[d] ELSE Tail(pending[d])

\* A feed that has started delivers a bar; one that has not may start.
NextLens(d) ==
    IF d \notin datas THEN {0}
    ELSE IF len[d] = 0 THEN {0, 1}
    ELSE {Min(len[d] + 1, LenCap)}

\* Bounds of the trade accounting: the closed trades of a run and the
\* profit (after commission) a closed trade can report, in the account currency.
MaxTrades == 2
TradePnl == {-100, 100}

RECURSIVE SumOver(_, _)
SumOver(f, S) ==
    IF S = {} THEN 0
    ELSE LET d == CHOOSE x \in S : TRUE IN f[d] + SumOver(f, S \ {d})

TotalTrades == SumOver(trades_number, Coins)

\* Variant of ClosesTrade that takes a refused sell for a closed trade.
ClosesTrade_on_refusal(d, outcome) == outcome # "open" /\ ~Head(pending[d]).isbuy

\* trade.isclosed (line 161): the trade of feed d is closed when a sell of
\* its whole position is executed.
ClosesTrade(d, outcome) == outcome = "completed" /\ ~Head(pending[d]).isbuy

\* trade.pnlcomm / self.broker.get_value() * 100 (the quotient is exact for
\* the values of TradePnl and BarValue).
PercentOf(pnl, v) == (pnl * 100) \div v

\* Variant of notify_trade_pair that leaves the per-instrument accumulator alone.
notify_trade_pair_forgotten(p, pnlcomm, v) == p

\* notify_trade on a closed trade (lines 161-164): the aggregate, the
\* instrument's accumulator and the instrument's trade count.
notify_trade_total(t, pnlcomm, v) == t + PercentOf(pnlcomm, v)
notify_trade_pair(p, pnlcomm, v) == p + PercentOf(pnlcomm, v)
notify_trade_number(n) == n + 1

\* notify_order (lines 172-197) only prints: with BASIC_ORDER_LOG and
\* DETAILED_ORDER_LOG off, a line for an order in Margin or Rejected.
notify_order(d, outcome) == outcome = "rejected"

\* The notifications of one broker step, one closed trade after the other.
RECURSIVE FoldTrades(_, _, _, _)
FoldTrades(t, pnlcomm, S, v) ==
    IF S = {} THEN t
    ELSE LET d == CHOOSE x \in S : TRUE IN
         FoldTrades(notify_trade_total(t, pnlcomm[d], v), pnlcomm, S \ {d}, v)

NewBar ==
    /\ phase = "idle"
    /\ ~crashed
    /\ value' \in BarValue
    /\ \E out \in [datas -> {"open", "completed", "rejected"}] :
          /\ \A d \in datas : out[d] \in Outcomes(d)
          /\ position' = [d \in Coins |-> IF d \in datas THEN PositionAfter(d, out[d]) ELSE NoSize]
          /\ pending' = [d \in Coins |-> IF d \in datas THEN PendingAfter(d, out[d]) ELSE <<>>]
          /\ log' = {d \in datas : notify_order(d, out[d])}
          /\ LET closed == {d \in datas : ClosesTrade(d, out[d])} IN
             /\ TotalTrades + Cardinality(closed) <= MaxTrades
             /\ \E pnlcomm \in [closed -> TradePnl] :
                   /\ total_percent_pnl' =
                         FoldTrades(total_percent_pnl, pnlcomm, closed, value')
                   /\ perc_pnl' = [d \in Coins |->
                         IF d \in closed THEN notify_trade_pair(perc_pnl[d], pnlcomm[d], value')
                         ELSE perc_pnl[d]]
                   /\ trades_number' = [d \in Coins |->
                         IF d \in closed THEN notify_trade_number(trades_number[d])
                         ELSE trades_number[d]]
    /\ \E l \in [Coins -> 0..LenCap] :
          /\ \A d \in Coins : l[d] \in NextLens(d)
          /\ len' = l
          /\ \E m \in [{d \in Coins : HasMomentum(l, d)} -> BarMomentum] :
                momentum' = [d \in Coins |-> IF d \in DOMAIN m THEN m[d] ELSE NaN]
          /\ \E a \in [{d \in Coins : HasATRR(l, d)} -> BarATR] :
                ATR' = [d \in Coins |-> IF d \in DOMAIN a THEN a[d] ELSE NaN]
          /\ \E c \in [{d \in Coins : HasClose(l, d)} -> BarClose] :
                close' = [d \in Coins |-> IF d \in DOMAIN c THEN c[d] ELSE NaN]
    /\ phase' = "data"
    /\ UNCHANGED <<datas, BLACK_LIST, NUM_ELITE_COINS, ATRR, coins_ranking, crashed, calls>>

\* coins_indicators[d]["ATRR"] = 1 / (ATR / d.close): the quotient of two
\* indicator lines, computed with Python's float division on every bar once
\* the ATR has a value; a zero ATR raises ZeroDivisionError, which ends the run.
ZeroDivisionError == \E d \in datas : HasATRR(len, d) /\ ATR[d] = 0

Indicators ==
    /\ phase = "data"
    /\ ~crashed
    /\ IF ZeroDivisionError
       THEN crashed' = TRUE /\ UNCHANGED <<ATRR, phase>>
       ELSE /\ ATRR' = [d \in Coins |->
                          IF HasATRR(len, d) THEN Frac(close[d], ATR[d]) ELSE NaN]
            /\ phase' = "bar"
            /\ UNCHANGED crashed
    /\ UNCHANGED <<datas, BLACK_LIST, NUM_ELITE_COINS, len, momentum, ATR, close, value,
                   position, pending, coins_ranking, accounts, calls>>

\* The state after construction: cerebro has the feeds, no bar was delivered.
InitStrategy ==
    /\ datas = {"A", "B"}
    /\ BLACK_LIST = {}
    /\ NUM_ELITE_COINS = 1
    /\ len = [d \in Coins |-> 0]
    /\ momentum = [d \in Coins |-> NaN]
    /\ ATR = [d \in Coins |-> NaN]
    /\ close = [d \in Coins |-> NaN]
    /\ ATRR = [d \in Coins |-> NaN]
    /\ value = 10000
    /\ position = [d \in Coins |-> NoSize]
    /\ pending = [d \in Coins |-> <<>>]
    /\ coins_ranking = <<>>
    /\ phase = "idle"
    /\ crashed = FALSE
    /\ total_percent_pnl = 0
    /\ perc_pnl = [d \in Coins |-> 0]
    /\ trades_number = [d \in Coins |-> 0]
    /\ log = {}

Init == InitStrategy /\ call = NoCall /\ result = Pending

\* The profit an open position shows against the last close, in the account currency.
OpenPnl == {-100, 100}

\* Variant of profitandloss that reports a profit for an empty position.
profitandloss_any(d, u) == u[d]

\* comminfo.profitandloss(pos.size, pos.price, d.close[0]) (line 258):
\* size * (close - price), nothing for an empty position.
profitandloss(d, u) == IF HasPosition(d) THEN u[d] ELSE 0

\* The loop of stop() (lines 255-259) over the feeds in S.
RECURSIVE FoldOpen(_, _, _)
FoldOpen(t, u, S) ==
    IF S = {} THEN t
    ELSE LET d == CHOOSE x \in S : TRUE IN
         FoldOpen(t + PercentOf(profitandloss(d, u), value), u, S \ {d})

\* KeltnerStrategy.stop: cerebro calls it once, after the last bar's next().
stop ==
    /\ phase = "idle"
    /\ ~crashed
    /\ \E u \in [datas -> OpenPnl] :
          total_percent_pnl' = FoldOpen(total_percent_pnl, u, datas)
    /\ phase' = "stopped"
    /\ UNCHANGED <<datas, BLACK_LIST, NUM_ELITE_COINS, len, momentum, ATR, close, ATRR,
                   value, position, pending, coins_ranking, crashed,
                   perc_pnl, trades_number, log, calls>>

Next == NewBar \/ Indicators \/ next \/ stop

Spec == Init /\ [][Next]_vars

----------------------------------------------------------------------------
(* One evaluation cycle from every state of a bounded set of states in which *)
(* next() can be called: the ranking and the allocation as functions of the  *)
(* bar's indicator values and of the broker's state.                         *)

\* A position left by an earlier entry, and the order an earlier cycle left open.
HeldSize(n) == [pv |-> Frac(10000, n + 1), w |-> WeightScale, c |-> 1]
EarlierOrder(pos) ==
    IF IsZeroSize(pos) THEN Order(TRUE, "Limit", "keltner_bot", HeldSize(1))
    ELSE Order(FALSE, "Limit", "keltner_top", pos)

\* The state when a bar is delivered: feeds ds with l bars each, the bar's
\* values m, a, c, v, the feeds in held holding a position,
\* and, with open, one order of an earlier cycle still open on every warm feed.
CycleStart(ds, bl, n, l, m, a, c, v, held, open) ==
    /\ datas = ds
    /\ BLACK_LIST = bl
    /\ NUM_ELITE_COINS = n
    /\ len = [d \in Coins |-> IF d \in ds THEN l[d] ELSE 0]
    /\ momentum = [d \in Coins |-> IF d \in ds /\ l[d] >= momentum_period THEN m[d] ELSE NaN]
    /\ ATR = [d \in Coins |-> IF d \in ds /\ l[d] > ATRR_period THEN a[d] ELSE NaN]
    /\ close = [d \in Coins |-> IF d \in ds /\ l[d] >= 1 THEN c[d] ELSE NaN]
    /\ ATRR = [d \in Coins |-> NaN]
    /\ value = v
    /\ position = [d \in Coins |-> IF d \in held THEN HeldSize(n) ELSE NoSize]
    /\ pending = [d \in Coins |->
                    IF open /\ d \in ds /\ l[d] > MaxPeriod
                    THEN <<EarlierOrder(IF d \in held THEN HeldSize(n) ELSE NoSize)>>
                    ELSE <<>>]
    /\ coins_ranking = <<>>
    /\ phase = "data"
    /\ crashed = FALSE
    /\ total_percent_pnl = 0
    /\ perc_pnl = [d \in Coins |-> 0]
    /\ trades_number = [d \in Coins |-> 0]
    /\ log = {}
    /\ call = NoCall
    /\ result = Pending

\* Ranking: three feeds, each not started, at the period or past it, every
\* mix of momentum signs and ties, with and without a denylist.
InitRanking ==
    LET ds == {"A", "B", "C"} IN
    \E bl \in {{}, {"B"}}, n \in {2, 25} :
    \E l \in [ds -> {momentum_period - 1, MaxPeriod, MaxPeriod + 1}],
       m \in [ds -> {-100, 0, 100, 200}] :
        CycleStart(ds, bl, n, l, m, [d \in ds |-> 1], [d \in ds |-> 1], 10000, {}, FALSE)

\* Ranking: five warm feeds, three elite places.
InitFive ==
    \E m \in [Coins -> {-100, 200, 300, 400, 500}] :
        CycleStart(Coins, {}, 3, [d \in Coins |-> MaxPeriod + 1], m,
                   [d \in Coins |-> 1], [d \in Coins |-> 1], 10000, {}, FALSE)

\* Allocation: three warm feeds, every mix of volatilities and positions.
InitAllocation ==
    LET ds == {"A", "B", "C"} IN
    \E n \in {2, 25}, v \in {26, 10000}, open \in BOOLEAN, held \in SUBSET ds :
    \E m \in [ds -> {-100, 100}], a \in [ds -> {0, 1, 4, 4000000}], ca \in {1, 2} :
        /\ CycleStart(ds, {}, n, [d \in ds |-> MaxPeriod + 1], m, a,
                      [d \in ds |-> IF d = "A" THEN ca ELSE 1], v, held, open)

InitCycle == InitRanking \/ InitFive \/ InitAllocation

NextCycle == Indicators \/ next

SpecCycle == InitCycle /\ [][NextCycle]_vars

----------------------------------------------------------------------------
(* The ranking and momentum functions of the helper modules and the        *)
(* Momentum indicator, as functions of their arguments.  An optional or    *)
(* possibly undefined number is <<>> (None, NaN) or <<x>>.                 *)

None == <<>>
np_nan == <<>>

\* Python's truth test of an optional number: None and 0 are false.
Truthy(x) == x # None /\ x[1] # 0

Raised(e) == [status |-> "raised", error |-> e]

\* top_decimal is kept in tenths.
DecimalScale == 10

\* int(n * top_decimal)
TopCount(n, top_decimal) == (n * top_decimal[1]) \div DecimalScale

\* The Python slices s[:k] and s[-k:] for k >= 0; s[-0:] is s[0:].
SliceFirst(s, k) == SubSeq(s, 1, Min(k, Len(s)))
SliceLast(s, k) == IF k = 0 THEN s ELSE SubSeq(s, Max(1, Len(s) - k + 1), Len(s))

\* sort_values("momentum", ascending=False): a sorts before b; NaN sorts last.
Precedes(a, b) == a # np_nan /\ (b = np_nan \/ a[1] > b[1])

\* The orders the sort can return: it has one key and is not stable.
RECURSIVE SortedDescending(_, _)
SortedDescending(S, f) ==
    IF S = {} THEN {<<>>}
    ELSE LET top == {d \in S : \A e \in S : ~Precedes(f[e], f[d])}
         IN UNION {{<<d>> \o r : r \in SortedDescending(S \ {d}, f)} : d \in top}

\* generic/funcs_for_pairs_histories.py, momentum_ranking_for_pairs_histories:
\* call.pairs is the list of pair histories, call.momentum the last momentum
\* of each (line 21).
momentum_ranking_for_pairs_histories ==
    /\ call.fn = "momentum_ranking_for_pairs_histories"
    /\ result = Pending
    /\ IF Truthy(call.top_number) /\ Truthy(call.top_decimal)
       THEN result' = Raised("AssertionError")
       ELSE IF ~Truthy(call.top_decimal) /\ ~Truthy(call.top_number)
       THEN result' = Raised("UnboundLocalError")
       ELSE \E sorted_momentum \in SortedDescending(Range(call.pairs), call.momentum) :
               LET top_bottom_number ==
                       IF Truthy(call.top_decimal)
                       THEN TopCount(Len(sorted_momentum), call.top_decimal)
                       ELSE call.top_number[1]
                   top_coins == Range(SliceFirst(sorted_momentum, top_bottom_number))
                   bottom_coins == Range(SliceLast(sorted_momentum, top_bottom_number))
               IN result' = [status |-> "returned",
                             top |-> SelectSeq(call.pairs, LAMBDA x : x \in top_coins),
                             bottom |-> SelectSeq(call.pairs, LAMBDA x : x \in bottom_coins)]
    /\ UNCHANGED <<strategy, call>>

\* ranked_df = momentum_data.rank(axis=1, method="max", ascending=False): the
\* rank of a pair in its row is the number of pairs whose momentum is at
\* least its own; a NaN momentum has no rank.
Rank(S, f, d) ==
    IF f[d] = np_nan THEN np_nan
    ELSE <<Cardinality({e \in S : f[e] # np_nan /\ f[e][1] >= f[d][1]})>>

\* The NATR values of a row and their common multiple: 1 / natr is
\* (NatrLCM / natr) / NatrLCM.
NatrValues == {1, 2}
NatrLCM == 2
InvVolScaled(natr) == IF natr = np_nan THEN np_nan ELSE <<NatrLCM \div natr[1]>>

\* strategies/backtest/momentums.py, allocation_momentum_ranking, on one row
\* (time step): call.pairs are the symbols of vbt_data, call.momentum and
\* call.natr the row's momentum and NATR of each.
allocation_momentum_ranking ==
    /\ call.fn = "allocation_momentum_ranking"
    /\ result = Pending
    /\ IF ~(Truthy(call.top_decimal) \/ Truthy(call.top_number))
       THEN result' = Raised("ValueError")
       ELSE LET pairs == Range(call.pairs)
                top_number == IF ~Truthy(call.top_number)
                              THEN TopCount(Len(call.pairs), call.top_decimal)
                              ELSE call.top_number[1]
                top_pairs == {d \in pairs : Rank(pairs, call.momentum, d) # np_nan
                                            /\ Rank(pairs, call.momentum, d)[1] <= top_number}
                top_pairs_inv_vol == [d \in pairs |->
                    IF d \in top_pairs THEN InvVolScaled(call.natr[d]) ELSE np_nan]
                counted == {d \in pairs : top_pairs_inv_vol[d] # np_nan}
                sum_top_pairs_inv_vol ==
                    SumOver([d \in counted |-> top_pairs_inv_vol[d][1]], counted)
            IN result' = [status |-> "returned",
                          allocations |-> [d \in pairs |->
                              IF top_pairs_inv_vol[d] = np_nan THEN np_nan
                              ELSE <<Frac(top_pairs_inv_vol[d][1], sum_top_pairs_inv_vol)>>]]
    /\ UNCHANGED <<strategy, call>>

\* A regression slope is kept in units of 10^-8, a correlation coefficient
\* in tenths.
RScale == 10

\* Nearest integer to n / d (d > 0), ties to even: Python's round.
RoundHalfEven(n, d) ==
    LET a == IF n < 0 THEN -n ELSE n
        q == a \div d
        r == a % d
        m == IF 2 * r < d THEN q
             ELSE IF 2 * r > d THEN q + 1
             ELSE IF q % 2 = 0 THEN q ELSE q + 1
    IN IF n < 0 THEN -m ELSE m

\* rvalue = 1 - rvalue (lines 120-121), then rvalue ** 2, in hundredths.
OneMinusRSquared(rvalue) == (RScale - rvalue) * (RScale - rvalue)

\* Momentum.next (AB_Backtest.py lines 113-125): the momentum line in
\* hundredths (round(..., 2)) and the rvalue line in ten-thousandths
\* (round(..., 4)); slope * (1 - r)^2 * 10000 is slope * q / 10^6 for a slope
\* in units of 10^-8 and q in hundredths.
Momentum_next ==
    /\ call.fn = "Momentum.next"
    /\ result = Pending
    /\ LET rvalue_fast == OneMinusRSquared(call.rvalue_fast)
           rvalue_slow == OneMinusRSquared(call.rvalue_slow)
           momentum_fast == call.slope_fast * rvalue_fast
           momentum_slow == call.slope_slow * rvalue_slow
       IN result' = [status |-> "returned",
                     momentum |-> RoundHalfEven(momentum_fast + momentum_slow, 2 * 10000),
                     rvalue |-> ((rvalue_fast + rvalue_slow) * 100) \div 2]
    /\ UNCHANGED <<strategy, call>>

\* _calculate_momentum (funcs_for_pairs_histories.py lines 39-46):
\* slope * 100 * rvalue ** 2, exact, in units of 10^-8.
calculate_momentum ==
    /\ call.fn = "_calculate_momentum"
    /\ result = Pending
    /\ result' = [status |-> "returned",
                  momentum |-> call.slope * call.rvalue * call.rvalue]
    /\ UNCHANGED <<strategy, call>>

\* The arguments of the calls.
MaxPairs == 3
TopDecimals == {None, <<0>>, <<1>>, <<5>>, <<10>>}
TopNumbers == {None, <<0>>, <<1>>, <<2>>, <<5>>}
PairMomentums == {np_nan, <<-100>>, <<100>>}

Sign(x) == IF x > 0 THEN 1 ELSE IF x < 0 THEN -1 ELSE 0

\* linregress: the correlation coefficient has the sign of the slope, and is
\* 0 for a zero slope.
Slopes == {-1000000, -1, 0, 1, 1000000}
RValues == {-10, -5, 0, 5, 10}
Regressions == {x \in Slopes \X RValues : Sign(x[1]) = Sign(x[2])}

InitCalls ==
    /\ InitStrategy
    /\ result = Pending
    /\ \/ \E n \in 1..MaxPairs, td \in TopDecimals, tn \in TopNumbers :
          \E m \in [Range(SubSeq(Symbols, 1, n)) -> PairMomentums] :
             call = [fn |-> "momentum_ranking_for_pairs_histories",
                     pairs |-> SubSeq(Symbols, 1, n), momentum |-> m,
                     top_decimal |-> td, top_number |-> tn]
       \/ \E n \in 1..MaxPairs, td \in TopDecimals, tn \in TopNumbers :
          \E m \in [Range(SubSeq(Symbols, 1, n)) -> PairMomentums],
             v \in [Range(SubSeq(Symbols, 1, n)) -> {np_nan} \cup {<<x>> : x \in NatrValues}] :
             call = [fn |-> "allocation_momentum_ranking",
                     pairs |-> SubSeq(Symbols, 1, n), momentum |-> m, natr |-> v,
                     top_decimal |-> td, top_number |-> tn]
       \/ \E f \in Regressions, w \in Regressions :
             call = [fn |-> "Momentum.next", slope_fast |-> f[1], rvalue_fast |-> f[2],
                     slope_slow |-> w[1], rvalue_slow |-> w[2]]
       \/ \E x \in Regressions :
             call = [fn |-> "_calculate_momentum", slope |-> x[1], rvalue |-> x[2]]

NextCalls ==
    \/ momentum_ranking_for_pairs_histories
    \/ allocation_momentum_ranking
    \/ Momentum_next
    \/ calculate_momentum

SpecCalls == InitCalls /\ [][NextCalls]_vars

----------------------------------------------------------------------------
(* Properties *)

\* next() has returned on the current bar: coins_ranking and the open orders
\* are those of this cycle.
CycleDone == phase = "idle"

EliteSet == Elite(coins_ranking)

IsLimitBuy(o) == o.isbuy /\ o.exectype = "Limit" /\ o.price = "keltner_bot"
IsLimitSell(o) == ~o.isbuy /\ o.exectype = "Limit" /\ o.price = "keltner_top"
IsMarketClose(o) == ~o.isbuy /\ o.exectype = "Market"

HasOrder(d, P(_)) == \E i \in 1..Len(pending[d]) : P(pending[d][i])

\* The sum of the rounded weights of the elite rows, in millionths.
SumWeights ==
    LET e == EliteRows(coins_ranking)
    IN SeqSum([i \in 1..Len(e) |-> weight(coins_ranking, e[i])])

\* C1: no instrument ever has more than one outstanding order, in any state
\* reached by evaluation cycles and by the broker's fills and rejections.
C1_AtMostOneOutstandingOrder == \A d \in Coins : Len(pending[d]) <= 1

\* A cycle after fills and a closed trade: one feed carries a market close
\* of its open position, another a limit buy, one order each.
C1_Witness ==
    /\ CycleDone
    /\ TotalTrades > 0
    /\ \E d \in datas : HasPosition(d) /\ HasOrder(d, IsMarketClose)
    /\ \E d \in datas : ~HasPosition(d) /\ HasOrder(d, IsLimitBuy)

ScenarioMomentum == [d \in Coins |->
    IF d = "A" THEN 500 ELSE IF d = "B" THEN 300 ELSE IF d = "C" THEN -100
    ELSE IF d = "D" THEN 400 ELSE 200]

C3_EliteIsTopN ==
    CycleDone =>
        /\ Len(EliteRows(coins_ranking)) = Min(NUM_ELITE_COINS, Cardinality(RankingRows))
        /\ Cardinality(EliteSet) = Len(EliteRows(coins_ranking))
        /\ EliteSet \subseteq RankingRows
        /\ \A i \in EliteSet : \A o \in RankingRows \ EliteSet : momentum[o] <= momentum[i]
        /\ \A i, j \in 1..Len(coins_ranking) :
              i < j => momentum[coins_ranking[i]] >= momentum[coins_ranking[j]]
        /\ (datas = Coins /\ momentum = ScenarioMomentum /\ NUM_ELITE_COINS = 3) =>
              EliteRows(coins_ranking) = <<"A", "D", "B">>

\* The scenario A=5, B=3, C=-1, D=4, E=2 with N=3: E is cut by rank alone.
C3_Witness ==
    /\ CycleDone
    /\ datas = Coins /\ momentum = ScenarioMomentum /\ NUM_ELITE_COINS = 3
    /\ EliteSet = {"A", "B", "D"}
    /\ "E" \in RankingRows

\* C4: no instrument with momentum <= 0 is in the elite set or gets an
\* entry order.
C4_NoNonPositiveMomentumInElite ==
    CycleDone =>
        \A d \in all_coins_loop_list :
            momentum[d] <= 0 => (d \notin EliteSet /\ ~HasOrder(d, IsLimitBuy))

\* C5: a denylisted instrument, or one with fewer bars than the lookback
\* period, is not in the elite set and gets no order, and the cycle ranks
\* every other instrument that passes the filter.
Excluded(d) == d \in BLACK_LIST \/ len[d] < momentum_period

C5_ExcludedNotElite ==
    CycleDone =>
        /\ ~crashed
        /\ \A d \in datas : Excluded(d) => (d \notin EliteSet /\ pending[d] = <<>>)
        /\ \A d \in datas :
              (len[d] > MaxPeriod /\ d \notin BLACK_LIST /\ momentum[d] >= 0) =>
                  d \in Range(coins_ranking)
        /\ \A d \in EliteSet : ~HasPosition(d) /\ weight(coins_ranking, d) > 0 =>
              HasOrder(d, IsLimitBuy)

\* A denylisted warm instrument with positive momentum and an instrument
\* short of history are left out while another instrument gets its entry.
C5_Witness ==
    /\ CycleDone
    /\ \E d \in datas : d \in BLACK_LIST /\ len[d] > MaxPeriod /\ momentum[d] > 0
                        /\ d \notin EliteSet
    /\ \E d \in datas : len[d] < momentum_period /\ d \notin EliteSet
    /\ \E d \in EliteSet : HasOrder(d, IsLimitBuy)

\* C6 as stated: a limit buy is outstanding after the cycle exactly for the
\* elite instruments without a position.
C6_BuyIffEliteAndFlat ==
    CycleDone =>
        \A d \in datas :
            HasOrder(d, IsLimitBuy) <=> (d \in EliteSet /\ ~HasPosition(d))

\* C6 amended: a limit buy, and only that, is outstanding after the cycle
\* exactly for the elite instruments without a position whose target size
\* is not zero; an order left open by an earlier cycle changes nothing.
C6_BuyIffEliteFlatAndSized ==
    CycleDone =>
        \A d \in datas :
            /\ HasOrder(d, IsLimitBuy) <=>
                  (/\ d \in EliteSet
                   /\ ~HasPosition(d)
                   /\ ~IsZeroSize(target_size(coins_ranking, d)))
            /\ HasOrder(d, IsLimitBuy) =>
                  pending[d] = <<Order(TRUE, "Limit", "keltner_bot", target_size(coins_ranking, d))>>

\* An elite instrument without a position gets its entry, an elite one with
\* a position gets none, and one whose weight rounds to zero gets none.
C6_Witness ==
    /\ CycleDone
    /\ \E d \in EliteSet : ~HasPosition(d) /\ HasOrder(d, IsLimitBuy)
    /\ \E d \in EliteSet : HasPosition(d) /\ ~HasOrder(d, IsLimitBuy)
    /\ \E d \in EliteSet : ~HasPosition(d) /\ weight(coins_ranking, d) = 0 /\ pending[d] = <<>>

\* C7: the ranked order is a function of the scores: by momentum
\* descending, rows of equal momentum by symbol.
SymbolIndex(d) == CHOOSE i \in 1..Len(Symbols) : Symbols[i] = d

RankedBefore(d, e) ==
    \/ momentum[d] > momentum[e]
    \/ momentum[d] = momentum[e] /\ SymbolIndex(d) < SymbolIndex(e)

C7_TiesBySymbol ==
    CycleDone =>
        \A i, j \in 1..Len(coins_ranking) :
            i < j => RankedBefore(coins_ranking[i], coins_ranking[j])

\* An instrument with a zero volatility estimate on the current bar.
ZeroVolatility(d) == HasATRR(len, d) /\ ATR[d] = 0

\* The rounded weights of the elite rows sum to 1 within half a millionth
\* per row.
WeightsSumToOne ==
    /\ 2 * SumWeights <= 2 * WeightScale + elite_length(coins_ranking)
    /\ 2 * SumWeights >= 2 * WeightScale - elite_length(coins_ranking)

\* C8: the weights of the elite set sum to 1 within rounding; on a bar where
\* an instrument that passes the filter has a zero volatility estimate (an
\* infinite inverse volatility) the cycle still allocates: that instrument
\* has no entry order and the weights of the other elite rows sum to 1.
C8_WeightsSumToOne ==
    /\ (CycleDone /\ EliteSet # {}) => WeightsSumToOne
    /\ \A d \in RankingRows :
          ZeroVolatility(d) =>
              /\ ~crashed
              /\ CycleDone => ~HasOrder(d, IsLimitBuy)

\* C9: a bar on which an instrument has a zero volatility estimate does not
\* fail the run: the instrument keeps its rank and gets no entry order.
C9_ZeroVolatilityNotFatal ==
    \A d \in datas :
        ZeroVolatility(d) =>
            /\ ~crashed
            /\ (CycleDone /\ d \in RankingRows) =>
                  (d \in Range(coins_ranking) /\ ~HasOrder(d, IsLimitBuy))

\* The part of total equity committed by the elite rows' dollar allocations,
\* playing_value / value, as a fraction in lowest terms.
PlayableFraction ==
    LET pv == playing_value(coins_ranking) IN Frac(pv[1], pv[2] * value)

\* Every entry order of the cycle has the size V * |elite|/(N+1) * weight / price.
EntrySizes ==
    \A d \in EliteSet :
        HasOrder(d, IsLimitBuy) =>
            /\ pending[d][1].size.pv = Frac(value * Cardinality(EliteSet), NUM_ELITE_COINS + 1)
            /\ pending[d][1].size.w = weight(coins_ranking, d)
            /\ pending[d][1].size.c = close[d]

\* The dollar allocations total playing_value * SumWeights / WeightScale,
\* which is less than value when PlayableFraction * SumWeights / WeightScale < 1.
TotalBelowEquity == PlayableFraction[1] * SumWeights < PlayableFraction[2] * WeightScale

Scenario3of25 ==
    (Cardinality(EliteSet) = 3 /\ NUM_ELITE_COINS = 25 /\ value = 10000) =>
        playing_value(coins_ranking) = Frac(30000, 26)

\* C10 as stated: the dollar allocations of a cycle total at most
\* V * |elite|/(N+1), which is less than V.
C10_TotalAtMostPlayable ==
    (CycleDone /\ EliteSet # {}) =>
        /\ EntrySizes
        /\ SumWeights <= WeightScale
        /\ TotalBelowEquity
        /\ Scenario3of25

\* C10 amended: the dollar allocations of a cycle total at most
\* V * |elite|/(N+1) * (1 + |elite| / 2,000,000), the weights being rounded
\* to 6 decimals, which is less than V.
C10_TotalAtMostPlayableRounded ==
    (CycleDone /\ EliteSet # {}) =>
        /\ EntrySizes
        /\ 2 * SumWeights <= 2 * WeightScale + elite_length(coins_ranking)
        /\ TotalBelowEquity
        /\ Scenario3of25

\* Three elite rows, N = 25, equity 10,000: playing_value is 10,000 * 3/26,
\* and the rounded weights sum to more than 1.
C10_Witness ==
    /\ CycleDone
    /\ Cardinality(EliteSet) = 3 /\ NUM_ELITE_COINS = 25 /\ value = 10000
    /\ playing_value(coins_ranking) = <<15000, 13>>
    /\ SumWeights > WeightScale
    /\ \E d \in EliteSet : HasOrder(d, IsLimitBuy)

----------------------------------------------------------------------------
(* Trade accounting and run shutdown *)

Stopped == phase = "stopped"

SumPercPnl == SumOver(perc_pnl, Coins)

\* C11 as stated: at any point of the run the per-instrument realized pnl
\* accumulators sum to the aggregate accumulator.
C11_SumEqualsAggregate == SumPercPnl = total_percent_pnl

\* C11 as amended: until stop() has run, the per-instrument realized pnl
\* accumulators sum to the aggregate accumulator; stop() adds the unrealized
\* pnl of the open positions to the aggregate alone.
C11_SumEqualsAggregateUntilStop == ~Stopped => SumPercPnl = total_percent_pnl

\* Two instruments have each closed a trade with a non-zero result and the
\* run goes on.
C11_Witness ==
    /\ ~Stopped
    /\ \A d \in {"A", "B"} : trades_number[d] = 1 /\ perc_pnl[d] # 0
    /\ total_percent_pnl # 0

\* C12: stop() changes the aggregate only: every per-instrument accumulator
\* and trade count, the positions, the orders and the log are as before, and
\* when no instrument holds a position the aggregate is as before too; each
\* open position moves it by at most its own unrealized pnl.
C12_StopFoldsOnly ==
    [][Stopped' =>
         /\ perc_pnl' = perc_pnl
         /\ trades_number' = trades_number
         /\ position' = position
         /\ pending' = pending
         /\ log' = log
         /\ LET held == {d \in datas : HasPosition(d)}
                moved == total_percent_pnl' - total_percent_pnl IN
            /\ moved <= Cardinality(held)
            /\ -moved <= Cardinality(held)]_vars

\* stop() has run with one instrument holding a position and one flat, after
\* a closed trade, and the aggregate has moved away from the realized sum.
C12_Witness ==
    /\ Stopped
    /\ \E d \in datas : HasPosition(d)
    /\ \E d \in datas : ~HasPosition(d)
    /\ TotalTrades > 0
    /\ total_percent_pnl # SumPercPnl

----------------------------------------------------------------------------
(* Configuration of the ranking entry points *)

Returned == result # Pending /\ result.status = "returned"
Called(fn) == call.fn = fn /\ result # Pending

\* C13: a call of either ranking entry point that is given both a (non-zero)
\* top_decimal and a (non-zero) top_number ends in a configuration error,
\* not in a result.
C13_BothRejected ==
    \A fn \in {"momentum_ranking_for_pairs_histories", "allocation_momentum_ranking"} :
        (Called(fn) /\ Truthy(call.top_decimal) /\ Truthy(call.top_number)) =>
            (result.status = "raised" /\ result.error \in {"AssertionError", "ValueError"})

----------------------------------------------------------------------------
(* Refused orders *)

\* The step is the broker's: a bar is delivered and the notifications are sent.
BrokerStep == phase = "idle" /\ phase' = "data"

\* The step is a call of next().
NextStep == phase = "bar" /\ phase' = "idle"

\* C14: the notification of a refused (Margin / Rejected) order of an
\* instrument is logged and leaves the instrument's position, pnl
\* accumulator and trade count as they were; the refused order is gone and
\* nothing is submitted in its place before the next call of next(), which
\* submits the instrument's order again when its conditions hold: a limit
\* buy if it is elite, flat and sized, a limit sell if it is elite and held,
\* a market close if it is held and not elite.
C14_RefusalOnlyLogged ==
    [][/\ BrokerStep =>
            \A d \in log' :
                /\ position'[d] = position[d]
                /\ perc_pnl'[d] = perc_pnl[d]
                /\ trades_number'[d] = trades_number[d]
                /\ pending[d] # <<>>
                /\ pending'[d] = Tail(pending[d])
       /\ NextStep =>
            \A d \in log :
                LET r == coins_ranking'
                    o == pending'[d]
                    held == HasPosition(d)
                    elite == d \in Elite(r)
                    sized == ~IsZeroSize(target_size(r, d))
                IN /\ (elite /\ ~held /\ sized) => (Len(o) = 1 /\ IsLimitBuy(o[1]))
                   /\ (elite /\ held) => (Len(o) = 1 /\ IsLimitSell(o[1]))
                   /\ (~elite /\ held) => (Len(o) = 1 /\ IsMarketClose(o[1]))
                   /\ (~held /\ ~(elite /\ sized)) => o = <<>>]_vars

\* A buy was refused on this bar and next() has submitted it again, and a
\* trade had been closed before.
C14_Witness ==
    /\ CycleDone
    /\ TotalTrades > 0
    /\ \E d \in log : ~HasPosition(d) /\ HasOrder(d, IsLimitBuy)

----------------------------------------------------------------------------
(* Run end, take-profit orders, failures *)

\* C15: when the run has stopped no instrument has an order outstanding:
\* each is flat or holds an open position, none is waiting for an entry or
\* an exit.
C15_NoOrderOutstandingAtRunEnd == Stopped => \A d \in datas : pending[d] = <<>>

\* C16: at the end of every cycle each elite instrument that holds a
\* position has exactly one order, a limit sell of the whole position at the
\* upper band, and no instrument has both a market close and a limit sell;
\* and a position changes on a bar only when the instrument's outstanding
\* order is executed: a take-profit order that stays open or is refused
\* leaves the position as it was.
C16_TakeProfit ==
    [][/\ CycleDone' =>
            /\ \A d \in EliteSet' :
                  HasPosition(d)' =>
                      pending'[d] = <<Order(FALSE, "Limit", "keltner_top", position'[d])>>
            /\ \A d \in datas' :
                  \A i, j \in 1..Len(pending'[d]) :
                      ~(IsMarketClose(pending'[d][i]) /\ IsLimitSell(pending'[d][j]))
       /\ \A d \in datas :
            (HasPosition(d) /\ position'[d] # position[d]) =>
                /\ BrokerStep
                /\ pending[d] # <<>>
                /\ pending'[d] = Tail(pending[d])
                /\ d \notin log'
                /\ position'[d] = NoSize]_vars

\* An elite instrument holds its position after an earlier take-profit order
\* was refused, and carries the new limit sell.
C16_Witness ==
    /\ CycleDone
    /\ \E d \in EliteSet \cap log : HasPosition(d) /\ HasOrder(d, IsLimitSell)

\* C17: when the computation of one instrument fails on a bar, the cycle
\* still serves the others: a warmed-up instrument with a sound volatility
\* estimate that holds a position and has a negative momentum (so is not
\* elite) gets its market close.
C17_FailureIsolated ==
    crashed =>
        \A d \in datas :
            (~ZeroVolatility(d) /\ len[d] > MaxPeriod /\ HasPosition(d) /\ momentum[d] < 0) =>
                HasOrder(d, IsMarketClose)

----------------------------------------------------------------------------
(* Scores and the top / bottom lists *)

Abs(x) == IF x < 0 THEN -x ELSE x

\* The mean of r^2 over the fast and the slow window, in ten-thousandths.
MeanRSquared == ((call.rvalue_fast * call.rvalue_fast
                  + call.rvalue_slow * call.rvalue_slow) * 100) \div 2

\* C18: the confidence of a score lies in [0, 1]: the rvalue line of the
\* Momentum indicator is the mean of r^2 over its two windows, and
\* _calculate_momentum scales the slope by a factor of at most 1.
C18_ConfidenceInUnitInterval ==
    /\ Called("Momentum.next") =>
          /\ result.rvalue >= 0
          /\ result.rvalue <= 10000
          /\ result.rvalue = MeanRSquared
    /\ Called("_calculate_momentum") =>
          Abs(result.momentum) <= Abs(call.slope) * RScale * RScale

\* C19: a score with a confidence above 0 has a momentum of the sign of the
\* regression slope: for the Momentum indicator, whose two windows' slopes
\* agree in sign, the rounded momentum line has that sign; for
\* _calculate_momentum with r # 0, the returned momentum has the slope's sign.
C19_MomentumSignIsSlopeSign ==
    /\ (Called("Momentum.next") /\ result.rvalue > 0
           /\ Sign(call.slope_fast) = Sign(call.slope_slow)) =>
          Sign(result.momentum) = Sign(call.slope_slow)
    /\ (Called("_calculate_momentum") /\ call.rvalue # 0) =>
          Sign(result.momentum) = Sign(call.slope)

\* C20: the top list and the bottom list that
\* momentum_ranking_for_pairs_histories returns hold min(k, n) pair
\* histories each, k being top_number or int(n * top_decimal).
C20_TopAndBottomSizes ==
    (Called("momentum_ranking_for_pairs_histories") /\ Returned) =>
        LET n == Len(call.pairs)
            k == IF Truthy(call.top_decimal) THEN TopCount(n, call.top_decimal)
                 ELSE call.top_number[1]
        IN /\ Len(result.top) = Min(k, n)
           /\ Len(result.bottom) = Min(k, n)

----------------------------------------------------------------------------
(* Allocations of one row *)

\* The pairs of the row that were given an allocation.
Allocated == {d \in Range(call.pairs) : result.allocations[d] # np_nan}

\* The pairs of the row whose momentum is defined.
WithMomentum == {d \in Range(call.pairs) : call.momentum[d] # np_nan}

\* C21: in a row where every pair has a NATR, allocation_momentum_ranking
\* gives an allocation to min(top_number, pairs with a defined momentum)
\* pairs, with or without equal momenta, and no pair left without one has a
\* greater momentum than a pair that has one.
C21_AllocatedCount ==
    (Called("allocation_momentum_ranking") /\ Returned
        /\ \A d \in Range(call.pairs) : call.natr[d] # np_nan) =>
        LET top_number == IF Truthy(call.top_number) THEN call.top_number[1]
                          ELSE TopCount(Len(call.pairs), call.top_decimal)
        IN /\ Cardinality(Allocated) = Min(top_number, Cardinality(WithMomentum))
           /\ Allocated \subseteq WithMomentum
           /\ \A d \in Allocated, e \in WithMomentum \ Allocated :
                 call.momentum[d][1] >= call.momentum[e][1]

====
